---- MODULE Spec2Model ----
(***************************************************************************)
(* Model of new_whisper_mcp/meeting_audio_mcp.py: one request of           *)
(* process_meeting_audio (download, split, per-chunk transcription with    *)
(* timestamp normalisation, diarization, alignment, response assembly),    *)
(* the pure function align_asr_with_diarization and the mock               *)
(* diarize_audio; and of new_whisper_mcp/server.py: one request of         *)
(* transcribe_audio.                                                       *)
(*                                                                         *)
(* Times are integers counting milliseconds, so that round(x, 2) is a      *)
(* real conversion (to a multiple of 10 ms).  A speaker label "spk_k" is   *)
(* the number k; sorted() on the labels is the numeric order of k.  A text *)
(* is a sequence of one-character strings.                                 *)
(***************************************************************************)
EXTENDS Integers, Sequences, FiniteSets, TLC

VARIABLES
    pc,                 \* position of process_meeting_audio
    outcome,            \* "running" | "returned" | "raised" | "cancelled"
    endedAt,            \* the position at which the request ended ("none" while running)
    tmp_file,           \* the scratch file of download_audio: "none" | "exists" | "removed"
    content_type,       \* second component of download_audio's result ("unset" before it)
    chunkFiles,         \* indices of the chunk files that exist on disk
    idx,                \* 0-based index of the chunk the for loop is at
    offset,             \* the local variable offset
    all_asr_segments,   \* the local variable all_asr_segments
    diar_segments,      \* the local variable diar_segments
    aligned_segments,   \* the local variable aligned_segments
    result,             \* the dict returned to the caller, NoResult when none
    attempt,            \* per chunk, how its transcribe_chunk call ended
    returned,           \* per chunk, the (chunk-local) list transcribe_chunk returned
    diar_call,          \* how the diarize_audio call ended
    header,             \* the Content-Type header of the download response ("unset" before it)
    diar_log,           \* per diarize_audio call made, the state of tmp_file at the call
    yielded,            \* server.py: the pieces transcribe_audio_generator has yielded
    realigned           \* the result of a second align_asr_with_diarization call

vars == <<pc, outcome, endedAt, tmp_file, content_type, chunkFiles, idx, offset,
          all_asr_segments, diar_segments, aligned_segments, result, attempt,
          returned, diar_call, header, diar_log, yielded, realigned>>

-----------------------------------------------------------------------------
(* Configuration and units *)

CHUNK_DURATION_SEC == 20

NUM_CHUNKS == 2

Sec(n) == n * 1000

ChunkIds == 0 .. (NUM_CHUNKS - 1)

NoResult == [none |-> TRUE]

-----------------------------------------------------------------------------
(* Sequence helpers *)

RECURSIVE Flatten(_)
Flatten(ss) == IF ss = <<>> THEN <<>> ELSE Head(ss) \o Flatten(Tail(ss))

SeqsUpTo(S, n) == UNION {[1..k -> S] : k \in 0..n}

Max2(a, b) == IF a >= b THEN a ELSE b

\* round(x, 2) on a time in ms: the nearest multiple of 10, halves to the even one
Round2(x) ==
    LET q == x \div 10
        r == x % 10
    IN  IF r < 5 THEN 10 * q
        ELSE IF r > 5 THEN 10 * (q + 1)
        ELSE IF q % 2 = 0 THEN 10 * q ELSE 10 * (q + 1)

RECURSIVE lstrip(_)
lstrip(t) == IF t # <<>> /\ Head(t) = " " THEN lstrip(Tail(t)) ELSE t

RECURSIVE rstrip(_)
rstrip(t) == IF t # <<>> /\ t[Len(t)] = " " THEN rstrip(SubSeq(t, 1, Len(t) - 1)) ELSE t

\* str.strip()
strip(t) == rstrip(lstrip(t))

\* " ".join(texts)
RECURSIVE join(_)
join(texts) ==
    IF texts = <<>> THEN <<>>
    ELSE IF Len(texts) = 1 THEN texts[1]
    ELSE texts[1] \o <<" ">> \o join(Tail(texts))

-----------------------------------------------------------------------------
(* transcribe_chunk: the mock transcription collaborator *)

MinSegments == 2
MaxSegments == 5
MinSegmentSec == 2
MaxSegmentSec == 5

\* SAMPLE_SENTENCES, two of them: texts as generate_random_text returns them (stripped)
SAMPLE_SENTENCES == << <<"a">>, <<"b", " ", "c">> >>

\* num_segments = random.randint(2, 5): the two ends of the range
SegmentCounts == {MinSegments, MaxSegments}

\* duration = round(random.uniform(2.0, 5.0), 2) per segment: every segment the
\* shortest, every segment the longest, only the first or only the last the longest
DurationDraws(n) ==
    { [i \in 1..n |-> IF i \in L THEN Sec(MaxSegmentSec) ELSE Sec(MinSegmentSec)] :
        L \in {{}, {1}, {n}, 1..n} }

\* text = generate_random_text(...): a random draw; the model takes the sentences in turn
TextDraws(n) == { [i \in 1..n |-> SAMPLE_SENTENCES[((i + 1) % 2) + 1]] }

\* the for loop of transcribe_chunk from segment i on, current_time as in the code
RECURSIVE transcribe_loop(_, _, _, _)
transcribe_loop(durs, texts, i, current_time) ==
    IF i > Len(durs) THEN <<>>
    ELSE LET start == Round2(current_time)
             end   == Round2(start + durs[i])
         IN  <<[start |-> start, end |-> end, text |-> texts[i]]>>
             \o transcribe_loop(durs, texts, i + 1, end)

\* every list of segments the model lets transcribe_chunk return
transcribe_chunk ==
    UNION { { transcribe_loop(durs, texts, 1, 0) : durs \in DurationDraws(n), texts \in TextDraws(n) } :
            n \in SegmentCounts }

-----------------------------------------------------------------------------
(* diarize_audio: the diarization collaborator, at its interface *)

MaxDiar == 2

\* speaker turns a response is built from: {speaker, start, end} in global time
DiarTurns ==
    { [speaker |-> 2, start |-> 0,        end |-> Sec(25)],
      [speaker |-> 1, start |-> Sec(25),  end |-> Sec(40)],
      [speaker |-> 1, start |-> Sec(22),  end |-> Sec(30)],
      [speaker |-> 3, start |-> Sec(90),  end |-> Sec(100)] }

\* every list of speaker turns the model lets diarize_audio return
diarize_audio == SeqsUpTo(DiarTurns, MaxDiar)

-----------------------------------------------------------------------------
(* align_asr_with_diarization *)

\* overlap with strict comparisons: touching intervals do not overlap
overlap_strict(a, d) == (a.start < d.end) /\ (a.end > d.start)

\* overlap = (a["start"] <= d["end"]) and (a["end"] >= d["start"])
overlap(a, d) == (a.start <= d.end) /\ (a.end >= d.start)

\* a.get("text", "")
get_text(a) == IF "text" \in DOMAIN a THEN a.text ELSE <<>>

\* the inner loop with the last overlapping diarization segment winning
RECURSIVE inner_loop_last(_, _, _)
inner_loop_last(a, diar, j) ==
    IF j > Len(diar) THEN 0
    ELSE LET later == inner_loop_last(a, diar, j + 1)
         IN  IF later # 0 THEN later
             ELSE IF (a.start <= diar[j].end) /\ (a.end >= diar[j].start) THEN j ELSE 0

\* the inner for loop from position j on: the index of the first overlapping
\* diarization segment (the loop breaks there), 0 when the loop runs out
RECURSIVE inner_loop(_, _, _)
inner_loop(a, diar, j) ==
    IF j > Len(diar) THEN 0
    ELSE IF overlap(a, diar[j]) THEN j
    ELSE inner_loop(a, diar, j + 1)

\* appended, with a segment that matches nothing kept under a speaker 0
appended_unknown(a, diar) ==
    LET j == inner_loop(a, diar, 1)
    IN  <<[speaker |-> IF j = 0 THEN 0 ELSE diar[j].speaker,
           start   |-> Round2(a.start),
           end     |-> Round2(a.end),
           text    |-> strip(get_text(a))]>>

\* appended, without the break: one result per overlapping diarization segment
appended_no_break(a, diar) ==
    LET hits == SelectSeq([j \in 1..Len(diar) |-> j], LAMBDA j : a.start <= diar[j].end /\ a.end >= diar[j].start)
    IN  [h \in 1..Len(hits) |->
            [speaker |-> diar[hits[h]].speaker,
             start   |-> Round2(a.start),
             end     |-> Round2(a.end),
             text    |-> strip(get_text(a))]]

\* what one iteration of the outer loop appends to results
appended(a, diar) ==
    LET j == inner_loop(a, diar, 1)
    IN  IF j = 0 THEN <<>>
        ELSE <<[speaker |-> diar[j].speaker,
                start   |-> Round2(a.start),
                end     |-> Round2(a.end),
                text    |-> strip(get_text(a))]>>

RECURSIVE outer_loop(_, _, _)
outer_loop(asr, diar, i) ==
    IF i > Len(asr) THEN <<>>
    ELSE appended(asr[i], diar) \o outer_loop(asr, diar, i + 1)

align_asr_with_diarization(asr_segments, diar_segs) == outer_loop(asr_segments, diar_segs, 1)

-----------------------------------------------------------------------------
(* Response assembly of process_meeting_audio *)

\* the speaker set listed from the largest label down
sorted_descending(S) ==
    LET RECURSIVE down(_)
        down(T) == IF T = {} THEN <<>>
                   ELSE LET m == CHOOSE x \in T : \A y \in T : x >= y
                        IN  <<m>> \o down(T \ {m})
    IN  down(S)

\* sorted({s["speaker"] for s in aligned_segments})
RECURSIVE sorted(_)
sorted(S) ==
    IF S = {} THEN <<>>
    ELSE LET m == CHOOSE x \in S : \A y \in S : x <= y
         IN  <<m>> \o sorted(S \ {m})

\* the end of the last aligned segment instead of the largest end
max_end_last(segs) == IF segs = <<>> THEN 0 ELSE segs[Len(segs)].end

\* max((s["end"] for s in aligned_segments), default=0.0)
RECURSIVE max_end(_)
max_end(segs) == IF segs = <<>> THEN 0 ELSE
    IF Len(segs) = 1 THEN segs[1].end ELSE Max2(segs[1].end, max_end(Tail(segs)))

build_response(aligned) ==
    [speakers        |-> sorted({aligned[k].speaker : k \in 1..Len(aligned)}),
     segments        |-> aligned,
     full_transcript |-> join([k \in 1..Len(aligned) |-> aligned[k].text]),
     duration        |-> max_end(aligned)]

-----------------------------------------------------------------------------
(* process_meeting_audio *)

\* what the response declares: a Content-Type header, or none
Headers == {"audio/wav", "absent"}

\* resp.headers.get("Content-Type", "audio/mpeg"): a missing header gives the default
headers_get_default(h) == IF h = "absent" THEN "audio/mpeg" ELSE h

\* resp.headers.get("Content-Type"): a missing header gives None
headers_get(h) == IF h = "absent" THEN "None" ELSE h

\* the values content_type can take in process_meeting_audio
ContentTypes == {headers_get(h) : h \in Headers}

Init ==
    /\ pc = "download"
    /\ outcome = "running"
    /\ endedAt = "none"
    /\ tmp_file = "none"
    /\ content_type = "unset"
    /\ chunkFiles = {}
    /\ idx = 0
    /\ offset = 0
    /\ all_asr_segments = <<>>
    /\ diar_segments = <<>>
    /\ aligned_segments = <<>>
    /\ result = NoResult
    /\ attempt = [i \in ChunkIds |-> "none"]
    /\ returned = [i \in ChunkIds |-> <<>>]
    /\ diar_call = "none"
    /\ header = "unset"
    /\ diar_log = <<>>
    /\ yielded = <<>>
    /\ realigned = <<>>

\* tmp_file, content_type = await download_audio(url)
DownloadReturn ==
    /\ pc = "download"
    /\ \E h \in Headers :
        /\ header' = h
        /\ content_type' = headers_get(h)
    /\ tmp_file' = "exists"
    /\ pc' = "split"
    /\ UNCHANGED <<outcome, endedAt, chunkFiles, idx, offset, all_asr_segments,
                   diar_segments, aligned_segments, result, attempt, returned, diar_call,
                   diar_log, yielded, realigned>>

\* download_audio raises, or is cancelled, outside the try block of
\* process_meeting_audio: before the temporary file exists (created = FALSE) or
\* while the bytes are streamed into it (created = TRUE; delete=False keeps it)
DownloadEnds(how) ==
    /\ pc = "download"
    /\ \E created \in BOOLEAN : tmp_file' = IF created THEN "exists" ELSE "none"
    /\ pc' = "done"
    /\ outcome' = how
    /\ endedAt' = "download"
    /\ UNCHANGED <<content_type, chunkFiles, idx, offset, all_asr_segments,
                   diar_segments, aligned_segments, result, attempt, returned, diar_call, header, diar_log, yielded, realigned>>

DownloadRaise == DownloadEnds("raised")

DownloadCancelled == DownloadEnds("cancelled")

\* Unwind without the finally clause: the exception leaves tmp_file where it is
UnwindNoCleanup(how) ==
    /\ tmp_file' = tmp_file
    /\ pc' = "done"
    /\ outcome' = how
    /\ endedAt' = pc
    /\ result' = NoResult

\* an exception leaves the try block: the finally clause removes tmp_file and the
\* exception reaches the caller; no dict is returned
Unwind(how) ==
    /\ tmp_file' = "removed"
    /\ pc' = "done"
    /\ outcome' = how
    /\ endedAt' = pc
    /\ result' = NoResult

\* SplitReturn with the source removed as soon as it is split, as the try/finally
\* around split_audio in server.py does
SplitReturnRemovingSource ==
    /\ pc = "split"
    /\ chunkFiles' = ChunkIds
    /\ tmp_file' = "removed"
    /\ pc' = IF NUM_CHUNKS = 0 THEN "diarize" ELSE "transcribe"
    /\ diar_log' = IF NUM_CHUNKS = 0 THEN Append(diar_log, tmp_file') ELSE diar_log
    /\ UNCHANGED <<outcome, endedAt, content_type, idx, offset, all_asr_segments,
                   diar_segments, aligned_segments, result, attempt, returned, diar_call,
                   header, yielded, realigned>>

\* chunks = await split_audio(tmp_file): NUM_CHUNKS files are touched; the loop
\* then awaits transcribe_chunk for chunk 0 (or diarize_audio when there is none)
SplitReturn ==
    /\ pc = "split"
    /\ chunkFiles' = ChunkIds
    /\ pc' = IF NUM_CHUNKS = 0 THEN "diarize" ELSE "transcribe"
    /\ diar_log' = IF NUM_CHUNKS = 0 THEN Append(diar_log, tmp_file) ELSE diar_log
    /\ UNCHANGED <<outcome, endedAt, tmp_file, content_type, idx, offset, all_asr_segments,
                   diar_segments, aligned_segments, result, attempt, returned, diar_call,
                   header, yielded, realigned>>

\* split_audio raises: mkdtemp fails (k = 0) or the touch of chunk k fails
SplitRaise ==
    /\ pc = "split"
    /\ \E k \in ChunkIds : chunkFiles' = 0 .. (k - 1)
    /\ Unwind("raised")
    /\ UNCHANGED <<content_type, idx, offset, all_asr_segments, diar_segments,
                   aligned_segments, attempt, returned, diar_call, header, diar_log, yielded, realigned>>

\* normalize with the second assignment lost: only start is shifted
normalize_start_only(segs, off) ==
    [k \in 1..Len(segs) |-> [segs[k] EXCEPT !.start = @ + off]]

\* for s in segs: s["start"] += offset; s["end"] += offset
normalize(segs, off) ==
    [k \in 1..Len(segs) |-> [segs[k] EXCEPT !.start = @ + off, !.end = @ + off]]

\* the offset advanced by the chunk length less one second
next_offset_short(off) == off + Sec(CHUNK_DURATION_SEC - 1)

\* offset += CHUNK_DURATION_SEC
next_offset(off) == off + Sec(CHUNK_DURATION_SEC)

\* one iteration of the for loop whose transcribe_chunk call returns one of
\* responses; after the last chunk the diarize_audio call is made
TranscribeReturnFrom(responses) ==
    /\ pc = "transcribe"
    /\ \E segs \in responses :
        /\ all_asr_segments' = all_asr_segments \o normalize(segs, offset)
        /\ returned' = [returned EXCEPT ![idx] = segs]
    /\ offset' = next_offset(offset)
    /\ chunkFiles' = chunkFiles \ {idx}
    /\ attempt' = [attempt EXCEPT ![idx] = "ok"]
    /\ idx' = idx + 1
    /\ pc' = IF idx + 1 = NUM_CHUNKS THEN "diarize" ELSE "transcribe"
    /\ diar_log' = IF idx + 1 = NUM_CHUNKS THEN Append(diar_log, tmp_file) ELSE diar_log
    /\ UNCHANGED <<outcome, endedAt, tmp_file, content_type, diar_segments,
                   aligned_segments, result, diar_call, header, yielded, realigned>>

TranscribeReturn == TranscribeReturnFrom(transcribe_chunk)

\* the transcribe_chunk call of chunk idx ends with an exception (how = "raised")
\* or the task is cancelled while awaiting it (how = "cancelled"): nothing in the
\* loop catches it, the os.remove(chunk) of this iteration is not reached
TranscribeEnds(how) ==
    /\ pc = "transcribe"
    /\ attempt' = [attempt EXCEPT ![idx] = how]
    /\ Unwind(how)
    /\ UNCHANGED <<content_type, chunkFiles, idx, offset, all_asr_segments,
                   diar_segments, aligned_segments, returned, diar_call, header, diar_log, yielded, realigned>>

TranscribeRaise == TranscribeEnds("raised")

TranscribeCancelled == TranscribeEnds("cancelled")

\* diar_segments = await diarize_audio(tmp_file)
DiarizeReturnFrom(responses) ==
    /\ pc = "diarize"
    /\ \E d \in responses : diar_segments' = d
    /\ diar_call' = "ok"
    /\ pc' = "align"
    /\ UNCHANGED <<outcome, endedAt, tmp_file, content_type, chunkFiles, idx, offset,
                   all_asr_segments, aligned_segments, result, attempt, returned,
                   header, diar_log, yielded, realigned>>

DiarizeReturn == DiarizeReturnFrom(diarize_audio)

\* the diarize_audio call ends with an exception or the task is cancelled in it
DiarizeEnds(how) ==
    /\ pc = "diarize"
    /\ diar_call' = how
    /\ Unwind(how)
    /\ UNCHANGED <<content_type, chunkFiles, idx, offset, all_asr_segments,
                   diar_segments, aligned_segments, attempt, returned, header, diar_log, yielded, realigned>>

\* a diarization failure caught and replaced by an empty diarization
DiarizeRaiseSwallowed ==
    /\ pc = "diarize"
    /\ diar_call' = "raised"
    /\ diar_segments' = <<>>
    /\ pc' = "align"
    /\ UNCHANGED <<outcome, endedAt, tmp_file, content_type, chunkFiles, idx, offset,
                   all_asr_segments, aligned_segments, result, attempt, returned, header, diar_log, yielded, realigned>>

DiarizeRaise == DiarizeEnds("raised")

DiarizeCancelled == DiarizeEnds("cancelled")

\* align, build the response, return it; the finally clause removes tmp_file
AlignReturn ==
    /\ pc = "align"
    /\ aligned_segments' = align_asr_with_diarization(all_asr_segments, diar_segments)
    /\ result' = build_response(aligned_segments')
    /\ tmp_file' = "removed"
    /\ pc' = "done"
    /\ outcome' = "returned"
    /\ endedAt' = "return"
    /\ UNCHANGED <<content_type, chunkFiles, idx, offset, all_asr_segments,
                   diar_segments, attempt, returned, diar_call, header, diar_log, yielded, realigned>>

\* alignment or assembly raises (a segment of a collaborator lacks a key)
AlignRaise ==
    /\ pc = "align"
    /\ Unwind("raised")
    /\ UNCHANGED <<content_type, chunkFiles, idx, offset, all_asr_segments,
                   diar_segments, aligned_segments, attempt, returned, diar_call, header, diar_log, yielded, realigned>>

Next ==
    \/ DownloadReturn
    \/ DownloadRaise
    \/ DownloadCancelled
    \/ SplitReturn
    \/ SplitRaise
    \/ TranscribeReturn
    \/ TranscribeRaise
    \/ TranscribeCancelled
    \/ DiarizeReturn
    \/ DiarizeRaise
    \/ DiarizeCancelled
    \/ AlignReturn
    \/ AlignRaise

Spec == Init /\ [][Next]_vars

-----------------------------------------------------------------------------
(* process_meeting_audio with the two collaborators replaced by stubs that     *)
(* return fixed lists: what the calls at lines 204 and 215 may receive from a  *)
(* transcription and a diarization service other than the mocks               *)

StubHello == [start |-> 0, end |-> Sec(5), text |-> <<"h", "e", "l", "l", "o">>]

StubWorld == [start |-> Sec(2), end |-> Sec(6), text |-> <<"w", "o", "r", "l", "d">>]

StubTranscripts == { <<>>, <<StubHello>>, <<StubWorld>>, <<StubHello, StubWorld>> }

StubTurns ==
    { [speaker |-> 1, start |-> 0,       end |-> Sec(25)],
      [speaker |-> 2, start |-> Sec(25), end |-> Sec(40)],
      [speaker |-> 2, start |-> Sec(5),  end |-> Sec(21)] }

StubDiarizations == SeqsUpTo(StubTurns, MaxDiar)

StubTranscribeReturn == TranscribeReturnFrom(StubTranscripts)

StubDiarizeReturn == DiarizeReturnFrom(StubDiarizations)

NextStub ==
    \/ DownloadReturn
    \/ SplitReturn
    \/ StubTranscribeReturn
    \/ StubDiarizeReturn
    \/ AlignReturn

SpecStub == Init /\ [][NextStub]_vars

-----------------------------------------------------------------------------
(* align_asr_with_diarization as a function of its two arguments: the        *)
(* arguments are drawn from bounded sets, then the function is called        *)

MaxAsr == 3

\* global transcript segments, as a transcription collaborator may time them:
\* to the millisecond, with or without surrounding blanks, one without "text"
AsrInputs ==
    { [start |-> Sec(10),  end |-> Sec(12),  text |-> <<"a">>],
      [start |-> 12004,    end |-> 13015,    text |-> <<" ", "b", " ">>],
      [start |-> Sec(21),  end |-> Sec(26),  text |-> <<"a">>],
      [start |-> Sec(40),  end |-> Sec(41),  text |-> <<"b", " ", "c">>],
      [start |-> 11995,    end |-> 11996] }

DiarInputs ==
    { [speaker |-> 2, start |-> Sec(12), end |-> Sec(20)],
      [speaker |-> 1, start |-> 0,       end |-> Sec(11)],
      [speaker |-> 3, start |-> 20500,   end |-> Sec(30)] }

InitAlign ==
    /\ pc = "aligner"
    /\ all_asr_segments \in SeqsUpTo(AsrInputs, MaxAsr)
    /\ diar_segments \in SeqsUpTo(DiarInputs, MaxDiar)
    /\ aligned_segments = <<>>
    /\ outcome = "running"
    /\ endedAt = "none"
    /\ tmp_file = "none"
    /\ content_type = "unset"
    /\ chunkFiles = {}
    /\ idx = 0
    /\ offset = 0
    /\ result = NoResult
    /\ attempt = [i \in ChunkIds |-> "none"]
    /\ returned = [i \in ChunkIds |-> <<>>]
    /\ diar_call = "none"
    /\ header = "unset"
    /\ diar_log = <<>>
    /\ yielded = <<>>
    /\ realigned = <<>>

\* the call with each transcript segment's bounds rounded in place
AlignCallInPlace ==
    /\ pc = "aligner"
    /\ aligned_segments' = align_asr_with_diarization(all_asr_segments, diar_segments)
    /\ all_asr_segments' = [k \in 1..Len(all_asr_segments) |->
           [all_asr_segments[k] EXCEPT !.start = Round2(@), !.end = Round2(@)]]
    /\ pc' = "aligned"
    /\ UNCHANGED <<outcome, endedAt, tmp_file, content_type, chunkFiles, idx, offset,
                   diar_segments, result, attempt, returned, diar_call,
                   header, diar_log, yielded, realigned>>

\* results = align_asr_with_diarization(asr_segments, diar_segments): the
\* function reads its two arguments and builds a new list
AlignCall ==
    /\ pc = "aligner"
    /\ aligned_segments' = align_asr_with_diarization(all_asr_segments, diar_segments)
    /\ pc' = "aligned"
    /\ UNCHANGED <<outcome, endedAt, tmp_file, content_type, chunkFiles, idx, offset,
                   all_asr_segments, diar_segments, result, attempt, returned, diar_call,
                   header, diar_log, yielded, realigned>>

\* a second call on the same two lists
AlignCallAgain ==
    /\ pc = "aligned"
    /\ realigned' = align_asr_with_diarization(all_asr_segments, diar_segments)
    /\ pc' = "aligned2"
    /\ UNCHANGED <<outcome, endedAt, tmp_file, content_type, chunkFiles, idx, offset,
                   all_asr_segments, diar_segments, aligned_segments, result, attempt,
                   returned, diar_call, header, diar_log, yielded>>

NextAlign ==
    \/ AlignCall
    \/ AlignCallAgain

SpecAlign == InitAlign /\ [][NextAlign]_vars

-----------------------------------------------------------------------------
(* diarize_audio, the mock in meeting_audio_mcp.py, as a function of its       *)
(* random draws: the draws are made, then the while loop runs on them          *)

TOTAL_DURATION_SEC == 2000
MinTurns == 30
MaxTurns == 50
MinTurnSec == 10
MaxTurnSec == 80

\* SPEAKERS: "spk_k" is the number k
SPEAKERS == 1..4

\* num_segments = random.randint(30, 50): the ends of the range and its middle
TurnCounts == {MinTurns, (MinTurns + MaxTurns) \div 2, MaxTurns}

\* duration = round(random.uniform(10.0, 80.0), 2): one value for the odd
\* turns and one for the even turns, from the ends of the range and two between
TurnSecs == {MinTurnSec, 3 * MinTurnSec, (MinTurnSec + MaxTurnSec) \div 2, MaxTurnSec}

\* the while loop of diarize_audio from current_time on, with the segments
\* built so far counted by made; turn k lasts durs[k] and is of speakers[k]
RECURSIVE diarize_loop(_, _, _, _, _)
diarize_loop(durs, speakers, num_segments, made, current_time) ==
    IF ~ (current_time < Sec(TOTAL_DURATION_SEC) /\ made < num_segments) THEN <<>>
    ELSE LET start == Round2(current_time)
             sum   == start + durs[made + 1]
             end   == Round2(IF sum <= Sec(TOTAL_DURATION_SEC) THEN sum
                             ELSE Sec(TOTAL_DURATION_SEC))
         IN  <<[speaker |-> speakers[made + 1], start |-> start, end |-> end]>>
             \o diarize_loop(durs, speakers, num_segments, made + 1, end)

InitDiarize ==
    /\ pc = "diarizer"
    /\ all_asr_segments = <<>>
    /\ diar_segments = <<>>
    /\ aligned_segments = <<>>
    /\ outcome = "running"
    /\ endedAt = "none"
    /\ tmp_file = "none"
    /\ content_type = "unset"
    /\ chunkFiles = {}
    /\ idx = 0
    /\ offset = 0
    /\ result = NoResult
    /\ attempt = [i \in ChunkIds |-> "none"]
    /\ returned = [i \in ChunkIds |-> <<>>]
    /\ diar_call = "none"
    /\ header = "unset"
    /\ diar_log = <<>>
    /\ yielded = <<>>
    /\ realigned = <<>>

\* segments = diarize_audio(file_path), for one outcome of the random draws
DiarizeCall ==
    /\ pc = "diarizer"
    /\ \E n \in TurnCounts, odd \in TurnSecs, even \in TurnSecs, first \in SPEAKERS :
          diar_segments' =
              diarize_loop([k \in 1..MaxTurns |-> Sec(IF k % 2 = 1 THEN odd ELSE even)],
                           [k \in 1..MaxTurns |-> ((first + k) % Cardinality(SPEAKERS)) + 1],
                           n, 0, 0)
    /\ diar_call' = "ok"
    /\ pc' = "diarized"
    /\ UNCHANGED <<outcome, endedAt, tmp_file, content_type, chunkFiles, idx, offset,
                   all_asr_segments, aligned_segments, result, attempt, returned,
                   header, diar_log, yielded, realigned>>

NextDiarize == DiarizeCall

SpecDiarize == InitDiarize /\ [][NextDiarize]_vars

-----------------------------------------------------------------------------
(* server.py: transcribe_audio and its generator transcribe_audio_generator *)

\* sentences of generate_random_text in server.py, four of them
ServerSentences == { <<"a">>, <<"b", " ", "c">>, <<"d">>, <<"e", " ", "f">> }

\* yield text + " "
text_piece(text) == text \o <<" ">>

\* yield f"[Error transcribing chunk {i}: {e}] ", i counting the chunks from 1
error_piece(i) == <<"[", ToString(i), "]", " ">>

InitServer ==
    /\ pc = "srv_download"
    /\ all_asr_segments = <<>>
    /\ diar_segments = <<>>
    /\ aligned_segments = <<>>
    /\ outcome = "running"
    /\ endedAt = "none"
    /\ tmp_file = "none"
    /\ content_type = "unset"
    /\ chunkFiles = {}
    /\ idx = 0
    /\ offset = 0
    /\ result = NoResult
    /\ attempt = [i \in ChunkIds |-> "none"]
    /\ returned = [i \in ChunkIds |-> <<>>]
    /\ diar_call = "none"
    /\ header = "unset"
    /\ diar_log = <<>>
    /\ yielded = <<>>
    /\ realigned = <<>>

\* tmp_file, content_type = await download_audio(url)
SrvDownloadReturn ==
    /\ pc = "srv_download"
    /\ \E h \in Headers :
        /\ header' = h
        /\ content_type' = headers_get_default(h)
    /\ tmp_file' = "exists"
    /\ pc' = "srv_split"
    /\ UNCHANGED <<outcome, endedAt, chunkFiles, idx, offset, all_asr_segments,
                   diar_segments, aligned_segments, result, attempt, returned, diar_call,
                   diar_log, yielded, realigned>>

\* download_audio raises before or after the temporary file exists; nothing
\* of transcribe_audio_generator removes it
SrvDownloadRaise ==
    /\ pc = "srv_download"
    /\ \E created \in BOOLEAN : tmp_file' = IF created THEN "exists" ELSE "none"
    /\ pc' = "done"
    /\ outcome' = "raised"
    /\ endedAt' = "srv_download"
    /\ UNCHANGED <<content_type, chunkFiles, idx, offset, all_asr_segments, diar_segments,
                   aligned_segments, result, attempt, returned, diar_call, header,
                   diar_log, yielded, realigned>>

\* try: chunks = await split_audio(tmp_file) / finally: os.remove(tmp_file)
SrvSplitReturn ==
    /\ pc = "srv_split"
    /\ chunkFiles' = ChunkIds
    /\ tmp_file' = "removed"
    /\ pc' = IF NUM_CHUNKS = 0 THEN "srv_return" ELSE "srv_transcribe"
    /\ UNCHANGED <<outcome, endedAt, content_type, idx, offset, all_asr_segments,
                   diar_segments, aligned_segments, result, attempt, returned, diar_call,
                   header, diar_log, yielded, realigned>>

\* split_audio raises: the finally clause removes tmp_file, the generator and
\* with it transcribe_audio raise
SrvSplitRaise ==
    /\ pc = "srv_split"
    /\ \E k \in ChunkIds : chunkFiles' = 0 .. (k - 1)
    /\ tmp_file' = "removed"
    /\ pc' = "done"
    /\ outcome' = "raised"
    /\ endedAt' = "srv_split"
    /\ UNCHANGED <<content_type, idx, offset, all_asr_segments, diar_segments,
                   aligned_segments, result, attempt, returned, diar_call, header,
                   diar_log, yielded, realigned>>

\* one iteration: transcribe_chunk returns text, the piece is yielded and added
\* to full_text, the finally clause removes the chunk
SrvTranscribeReturn ==
    /\ pc = "srv_transcribe"
    /\ \E text \in ServerSentences : yielded' = Append(yielded, text_piece(text))
    /\ chunkFiles' = chunkFiles \ {idx}
    /\ attempt' = [attempt EXCEPT ![idx] = "ok"]
    /\ idx' = idx + 1
    /\ pc' = IF idx + 1 = NUM_CHUNKS THEN "srv_return" ELSE "srv_transcribe"
    /\ UNCHANGED <<outcome, endedAt, tmp_file, content_type, offset, all_asr_segments,
                   diar_segments, aligned_segments, result, returned, diar_call, header,
                   diar_log, realigned>>

\* the iteration whose transcribe_chunk raises, with the exception leaving
\* the loop: as in the loop of process_meeting_audio, nothing is yielded, the
\* chunk stays and the request raises
SrvTranscribeRaiseAborting ==
    /\ pc = "srv_transcribe"
    /\ attempt' = [attempt EXCEPT ![idx] = "raised"]
    /\ pc' = "done"
    /\ outcome' = "raised"
    /\ endedAt' = "srv_transcribe"
    /\ UNCHANGED <<tmp_file, content_type, chunkFiles, idx, offset, all_asr_segments,
                   diar_segments, aligned_segments, result, returned, diar_call, header,
                   diar_log, yielded, realigned>>

\* one iteration whose transcribe_chunk raises an Exception: the except clause
\* yields the error piece, the finally clause removes the chunk, the loop goes on
SrvTranscribeRaise ==
    /\ pc = "srv_transcribe"
    /\ yielded' = Append(yielded, error_piece(idx + 1))
    /\ chunkFiles' = chunkFiles \ {idx}
    /\ attempt' = [attempt EXCEPT ![idx] = "raised"]
    /\ idx' = idx + 1
    /\ pc' = IF idx + 1 = NUM_CHUNKS THEN "srv_return" ELSE "srv_transcribe"
    /\ UNCHANGED <<outcome, endedAt, tmp_file, content_type, offset, all_asr_segments,
                   diar_segments, aligned_segments, result, returned, diar_call, header,
                   diar_log, realigned>>

\* the task is cancelled while transcribe_chunk is awaited: CancelledError is
\* no Exception, so only the finally clause runs and the request ends
SrvTranscribeCancelled ==
    /\ pc = "srv_transcribe"
    /\ chunkFiles' = chunkFiles \ {idx}
    /\ attempt' = [attempt EXCEPT ![idx] = "cancelled"]
    /\ pc' = "done"
    /\ outcome' = "cancelled"
    /\ endedAt' = "srv_transcribe"
    /\ UNCHANGED <<tmp_file, content_type, idx, offset, all_asr_segments, diar_segments,
                   aligned_segments, result, returned, diar_call, header, diar_log,
                   yielded, realigned>>

\* the generator is exhausted: return full_text.strip()
SrvReturn ==
    /\ pc = "srv_return"
    /\ result' = [text |-> strip(Flatten(yielded))]
    /\ pc' = "done"
    /\ outcome' = "returned"
    /\ endedAt' = "return"
    /\ UNCHANGED <<tmp_file, content_type, chunkFiles, idx, offset, all_asr_segments,
                   diar_segments, aligned_segments, attempt, returned, diar_call, header,
                   diar_log, yielded, realigned>>

NextServer ==
    \/ SrvDownloadReturn
    \/ SrvDownloadRaise
    \/ SrvSplitReturn
    \/ SrvSplitRaise
    \/ SrvTranscribeReturn
    \/ SrvTranscribeRaise
    \/ SrvTranscribeCancelled
    \/ SrvReturn

SpecServer == InitServer /\ [][NextServer]_vars

-----------------------------------------------------------------------------
(* Properties of process_meeting_audio, checked under Spec *)

Ended == pc = "done"

\* C1: when the transcribe_chunk call of a chunk has raised, the request still
\* ends by returning a transcript, raising nothing, and the transcript's
\* segments are the aligned segments of the chunks that were transcribed.
C1_FailedChunkIsDropped ==
    (Ended /\ \E i \in ChunkIds : attempt[i] = "raised")
        => /\ outcome = "returned"
           /\ result # NoResult
           /\ result.segments = align_asr_with_diarization(all_asr_segments, diar_segments)

\* C2: once the transcription attempt of a chunk has ended, by returning or by
\* raising, the file of that chunk no longer exists.
C2_ChunkFileGoneAfterAttempt ==
    \A i \in ChunkIds : attempt[i] \in {"ok", "raised"} => i \notin chunkFiles

\* C3: once download_audio has returned its scratch file, the file has been
\* removed whenever the request has ended, whichever way it ended.
C3_SourceRemovedOnEveryExit ==
    (Ended /\ content_type # "unset") => tmp_file = "removed"

\* C3 witness: the request ended with the exception of a transcribe_chunk call
\* and the scratch file is gone.
C3_Witness ==
    /\ Ended
    /\ outcome = "raised"
    /\ endedAt = "transcribe"
    /\ content_type # "unset"
    /\ tmp_file = "removed"

\* C4: when the request was cancelled during a transcribe_chunk call or during
\* the diarize_audio call, then after it has ended no chunk file and no source
\* file is left and no transcript was returned.
C4_CancelLeavesNoFile ==
    (Ended /\ outcome = "cancelled" /\ endedAt \in {"transcribe", "diarize"})
        => /\ chunkFiles = {}
           /\ tmp_file # "exists"
           /\ result = NoResult

\* C5: when the diarize_audio call has raised, the request has ended with an
\* error and has returned no transcript.
C5_DiarizeFailureIsFatal ==
    diar_call = "raised" => (Ended /\ outcome = "raised" /\ result = NoResult)

\* C5 witness: diarization failed after every chunk had been transcribed.
C5_Witness ==
    /\ diar_call = "raised"
    /\ \A i \in ChunkIds : attempt[i] = "ok"
    /\ all_asr_segments # <<>>
    /\ Ended

\* C6: every segment transcribe_chunk returned for chunk i is in the global list
\* with start = local start + i * CHUNK_DURATION_SEC and
\* end = local end + i * CHUNK_DURATION_SEC, in the order of the chunks.
C6_GlobalTimes ==
    LET Shifted(i) ==
            [k \in 1..Len(returned[i]) |->
                [start |-> returned[i][k].start + i * Sec(CHUNK_DURATION_SEC),
                 end   |-> returned[i][k].end + i * Sec(CHUNK_DURATION_SEC),
                 text  |-> returned[i][k].text]]
    IN  all_asr_segments = Flatten([n \in 1..idx |-> Shifted(n - 1)])

\* C6 witness: chunk 1 has been transcribed and its segments are in the list.
C6_Witness ==
    /\ idx >= 2
    /\ attempt[1] = "ok"
    /\ returned[1] # <<>>
    /\ Len(all_asr_segments) = Len(returned[0]) + Len(returned[1])

\* C7: in the normalized transcript list the start times never decrease from
\* one element to the next, chunk boundaries included.
C7_StartsNonDecreasing ==
    \A k \in 1..(Len(all_asr_segments) - 1) :
        all_asr_segments[k].start <= all_asr_segments[k + 1].start

\* C7 witness: the last segment of chunk 0 starts exactly where chunk 1 begins
\* and runs into it.
C7_Witness ==
    /\ idx >= 2
    /\ LET k == Len(returned[0])
       IN  /\ all_asr_segments[k].start = all_asr_segments[k + 1].start
           /\ all_asr_segments[k].end > all_asr_segments[k + 1].start

\* C9: a transcript segment strictly outside every diarization segment yields no
\* aligned segment and no piece of full_transcript: the returned segments and
\* full_transcript are those of the other transcript segments, in order.
C9_OutsideSegmentsDropped ==
    (Ended /\ outcome = "returned") =>
        LET Inside(a) == \E j \in 1..Len(diar_segments) :
                            ~ (a.end < diar_segments[j].start \/ a.start > diar_segments[j].end)
            kept == SelectSeq(all_asr_segments, Inside)
        IN  /\ Len(result.segments) = Len(kept)
            /\ \A k \in 1..Len(kept) : result.segments[k].text = kept[k].text
            /\ result.full_transcript = join([k \in 1..Len(kept) |-> kept[k].text])

\* C9 witness: a returned transcript for which one transcript segment lies
\* outside every diarization segment and another does not.
C9_Witness ==
    /\ Ended
    /\ outcome = "returned"
    /\ diar_segments # <<>>
    /\ \E k \in 1..Len(all_asr_segments) : \A j \in 1..Len(diar_segments) :
          \/ all_asr_segments[k].end < diar_segments[j].start
          \/ all_asr_segments[k].start > diar_segments[j].end
    /\ result.segments # <<>>

\* C11: in every returned transcript, speakers is strictly ascending and holds
\* exactly the speaker labels that occur in segments.
C11_SpeakersSortedAndExact ==
    (Ended /\ outcome = "returned") =>
        /\ \A k \in 1..(Len(result.speakers) - 1) : result.speakers[k] < result.speakers[k + 1]
        /\ {result.speakers[k] : k \in 1..Len(result.speakers)}
              = {result.segments[k].speaker : k \in 1..Len(result.segments)}

\* C11 witness: a returned transcript in which a larger label occurs before a
\* smaller one in segments, and some label occurs twice.
C11_Witness ==
    /\ Ended
    /\ outcome = "returned"
    /\ Len(result.speakers) >= 2
    /\ Len(result.segments) > Len(result.speakers)
    /\ \E k \in 1..(Len(result.segments) - 1) :
          result.segments[k].speaker > result.segments[k + 1].speaker

\* C12: in every returned transcript, duration is the largest end among the
\* aligned segments; without aligned segments the transcript is still
\* returned, with duration 0 and empty segments, speakers and full_transcript.
C12_DurationIsLargestEnd ==
    (Ended /\ outcome = "returned") =>
        IF result.segments = <<>>
        THEN /\ result.duration = 0
             /\ result.speakers = <<>>
             /\ result.full_transcript = <<>>
        ELSE /\ \E k \in 1..Len(result.segments) : result.duration = result.segments[k].end
             /\ \A k \in 1..Len(result.segments) : result.segments[k].end <= result.duration

\* C12 witness: a returned transcript whose largest end is not the end of its
\* last segment.
C12_Witness ==
    /\ Ended
    /\ outcome = "returned"
    /\ result.segments # <<>>
    /\ result.segments[Len(result.segments)].end < result.duration

\* a returned transcript without aligned segments although chunks were transcribed
C12_EmptyReached ==
    /\ Ended
    /\ outcome = "returned"
    /\ all_asr_segments # <<>>
    /\ result.segments = <<>>
    /\ result.duration = 0

\* C14: the content type download_audio returns, the one every transcribe_chunk
\* call is given, is the declared Content-Type when the response has one and a
\* generic audio MIME type when it has none; it is never a missing value.
C14_ContentTypeDeclaredOrGeneric ==
    content_type # "unset" =>
        /\ header # "absent" => content_type = header
        /\ header = "absent" => content_type = "audio/mpeg"
        /\ content_type # "None"

\* C17: in every request that returns a transcript diarize_audio was called
\* exactly once, with the source file in place; the source file is in place for
\* as long as the call is in flight.
C17_DiarizeOnceWithSource ==
    /\ (Ended /\ outcome = "returned") => (Len(diar_log) = 1 /\ diar_log[1] = "exists")
    /\ pc = "diarize" => tmp_file = "exists"
    /\ (pc = "align" /\ diar_call = "ok") => tmp_file = "exists"

\* C17 witness: a transcript was returned after one diarize_audio call, and the
\* source file was removed only afterwards.
C17_Witness ==
    /\ Ended
    /\ outcome = "returned"
    /\ diar_call = "ok"
    /\ Len(diar_log) = 1
    /\ tmp_file = "removed"

\* C19: when download_audio has failed after creating its temporary file, no
\* scratch file of the request is left once the request has ended.
C19_NoScratchFileAfterFailedDownload ==
    (Ended /\ endedAt = "download" /\ outcome = "raised") => tmp_file # "exists"

-----------------------------------------------------------------------------
(* Properties of align_asr_with_diarization, checked under SpecAlign *)

\* C8: every matched transcript segment a carries the speaker of the first
\* diarization segment d, in list order, with a.start <= d.end and
\* a.end >= d.start; touching counts, a later larger overlap never wins.
C8_FirstTouchingTurnLabels ==
    pc = "aligned" =>
        LET Touches(a, d) == a.start <= d.end /\ a.end >= d.start
            Matched(a) == \E j \in 1..Len(diar_segments) : Touches(a, diar_segments[j])
            First(a) == CHOOSE j \in 1..Len(diar_segments) :
                            /\ Touches(a, diar_segments[j])
                            /\ \A m \in 1..(j - 1) : ~ Touches(a, diar_segments[m])
            kept == SelectSeq(all_asr_segments, Matched)
        IN  /\ Len(aligned_segments) = Len(kept)
            /\ \A k \in 1..Len(kept) :
                  aligned_segments[k].speaker = diar_segments[First(kept[k])].speaker

\* C8 witness: the first transcript segment only touches the first diarization
\* segment, overlaps the second one properly, and is labelled with the first.
C8_Witness ==
    /\ pc = "aligned"
    /\ Len(all_asr_segments) >= 1
    /\ Len(diar_segments) >= 2
    /\ all_asr_segments[1].end = diar_segments[1].start
    /\ all_asr_segments[1].start < diar_segments[2].end
    /\ all_asr_segments[1].end > diar_segments[2].start
    /\ diar_segments[1].speaker # diar_segments[2].speaker
    /\ aligned_segments[1].speaker = diar_segments[1].speaker

\* C10 as stated: one aligned segment per matched transcript segment, in order,
\* with start and end equal to those of the transcript segment.
C10_VerbatimBounds ==
    pc = "aligned" =>
        LET Matched(a) == \E j \in 1..Len(diar_segments) :
                             a.start <= diar_segments[j].end /\ a.end >= diar_segments[j].start
            kept == SelectSeq(all_asr_segments, Matched)
        IN  /\ Len(aligned_segments) = Len(kept)
            /\ \A k \in 1..Len(kept) :
                  /\ aligned_segments[k].start = kept[k].start
                  /\ aligned_segments[k].end = kept[k].end

\* C10 as amended: one aligned segment per matched transcript segment, in
\* order, with start and end equal to those of the transcript segment rounded
\* to two decimals (the nearest 10 ms, a half going to the even one).
C10_RoundedBounds ==
    pc = "aligned" =>
        LET Matched(a) == \E j \in 1..Len(diar_segments) :
                             a.start <= diar_segments[j].end /\ a.end >= diar_segments[j].start
            Nearest(x) == CHOOSE y \in {10 * (x \div 10), 10 * (x \div 10) + 10} :
                             \/ 2 * (IF y > x THEN y - x ELSE x - y) < 10
                             \/ (2 * (IF y > x THEN y - x ELSE x - y) = 10 /\ (y \div 10) % 2 = 0)
            kept == SelectSeq(all_asr_segments, Matched)
        IN  /\ Len(aligned_segments) = Len(kept)
            /\ \A k \in 1..Len(kept) :
                  /\ aligned_segments[k].start = Nearest(kept[k].start)
                  /\ aligned_segments[k].end = Nearest(kept[k].end)

\* C10 witness: two transcript segments are matched, one is not, and a matched
\* one has a start that is no multiple of 10 ms.
C10_Witness ==
    /\ pc = "aligned"
    /\ Len(all_asr_segments) = 3
    /\ Len(aligned_segments) = 2
    /\ \E i \in 1..3 :
          /\ all_asr_segments[i].start % 10 # 0
          /\ \E j \in 1..Len(diar_segments) :
                /\ all_asr_segments[i].start <= diar_segments[j].end
                /\ all_asr_segments[i].end >= diar_segments[j].start

-----------------------------------------------------------------------------
(* Properties of the mock diarize_audio, checked under SpecDiarize *)

\* C16: every segment diarize_audio returns satisfies
\* 0 <= start <= end <= NUM_CHUNKS * CHUNK_DURATION_SEC, the total duration of
\* the chunks the same request transcribes.
C16_TurnsWithinRecording ==
    pc = "diarized" =>
        \A k \in 1..Len(diar_segments) :
            /\ 0 <= diar_segments[k].start
            /\ diar_segments[k].start <= diar_segments[k].end
            /\ diar_segments[k].end <= NUM_CHUNKS * Sec(CHUNK_DURATION_SEC)

-----------------------------------------------------------------------------
(* Properties of process_meeting_audio with stub collaborators, under SpecStub *)

\* C13: chunk 0 returns {0, 5, "hello"}, chunk 1 returns {2, 6, "world"} (any
\* further chunk returns nothing), diarization returns speaker 1 over [0, 25]
\* then speaker 2 over [25, 40]: the transcript has exactly two segments, both
\* of speaker 1, at {0, 5} and {22, 26}; speakers = [1]; duration = 26.
C13_ScenarioA ==
    ( /\ Ended
      /\ outcome = "returned"
      /\ NUM_CHUNKS >= 2
      /\ \A i \in ChunkIds : returned[i] = IF i = 0 THEN <<StubHello>>
                                          ELSE IF i = 1 THEN <<StubWorld>> ELSE <<>>
      /\ diar_segments = << [speaker |-> 1, start |-> 0, end |-> Sec(25)],
                            [speaker |-> 2, start |-> Sec(25), end |-> Sec(40)] >> )
    => /\ Len(result.segments) = 2
       /\ result.segments[1].speaker = 1
       /\ result.segments[1].start = 0
       /\ result.segments[1].end = Sec(5)
       /\ result.segments[2].speaker = 1
       /\ result.segments[2].start = Sec(22)
       /\ result.segments[2].end = Sec(26)
       /\ result.speakers = <<1>>
       /\ result.duration = Sec(26)

\* C13 witness: the scenario has run to its returned transcript.
C13_Witness ==
    /\ Ended
    /\ outcome = "returned"
    /\ returned[0] = <<StubHello>>
    /\ returned[1] = <<StubWorld>>
    /\ Len(all_asr_segments) = 2
    /\ diar_segments = << [speaker |-> 1, start |-> 0, end |-> Sec(25)],
                          [speaker |-> 2, start |-> Sec(25), end |-> Sec(40)] >>
    /\ Len(result.segments) = 2

-----------------------------------------------------------------------------
(* Properties of transcribe_audio of server.py, checked under SpecServer *)

\* C18: a chunk whose transcribe_chunk call raised has put one error piece at
\* its own position and has not ended the request; the file of every chunk
\* attempted is removed; the returned text is the pieces of all NUM_CHUNKS
\* chunks, one per chunk, concatenated in order (less the final blank).
C18_ErrorPieceInPlace ==
    /\ \A i \in ChunkIds : attempt[i] # "none" => i \notin chunkFiles
    /\ \A i \in ChunkIds : attempt[i] = "raised" =>
          /\ outcome # "raised"
          /\ Len(yielded) >= i + 1
          /\ yielded[i + 1] = <<"[", ToString(i + 1), "]", " ">>
    /\ \A i \in ChunkIds : attempt[i] = "ok" =>
          /\ Len(yielded) >= i + 1
          /\ yielded[i + 1][1] # "["
    /\ (Ended /\ outcome = "returned") =>
          /\ Len(yielded) = NUM_CHUNKS
          /\ \A i \in ChunkIds : attempt[i] \in {"ok", "raised"}
          /\ chunkFiles = {}
          /\ LET all == Flatten(yielded)
             IN  result.text = SubSeq(all, 1, Len(all) - 1)

\* C18 witness: the text was returned although the call of chunk 0 raised and
\* the call of chunk 1 returned.
C18_Witness ==
    /\ Ended
    /\ outcome = "returned"
    /\ attempt[0] = "raised"
    /\ attempt[1] = "ok"
    /\ Len(yielded) = NUM_CHUNKS
    /\ result.text # <<>>

====
